---- MODULE Spec2Model ----
(***************************************************************************)
(* The lens profiles of jaxtronomy (LensModel/Profiles/gaussian.py and     *)
(* sis.py) as a state machine: a caller invokes one profile operation at   *)
(* a time; the trapezoidal quadrature Gaussian._num_integral is run one    *)
(* lax.fori_loop iteration per step.                                       *)
(*                                                                         *)
(* Numbers are binary floating point values with round-to-nearest-even,    *)
(* gradual underflow, overflow to infinity and NaN, as the arrays of the   *)
(* code are (jax_enable_x64), at a reduced width: MantBits bits of         *)
(* precision and exponents ExpMin..ExpMax.  The sign of zero is not kept.  *)
(* Sums, products, quotients and square roots are correctly rounded; exp   *)
(* is computed in fixed point and is within a unit in the last place.      *)
(* Arithmetic is written as functions (FMul[a, b]) so that every operand   *)
(* is a value when it is used.                                             *)
(***************************************************************************)
EXTENDS Integers, Sequences, FiniteSets, TLC

\* Width of the floating point format.
MantBits == 8
ExpRange == 60
ExpMin == -ExpRange
ExpMax == ExpRange

------------------------------------------------------------------------------
(* Floating point values and arithmetic.                                   *)

RECURSIVE BitLen(_)
\* The number of bits of m >= 0.
BitLen(m) == IF m = 0 THEN 0 ELSE 1 + BitLen(m \div 2)

FloatT == [k : {"fin", "inf", "nan"}, s : {1, -1}, m : Nat, e : Int]
NaN == [k |-> "nan", s |-> 1, m |-> 0, e |-> 0]
Inf(s) == [k |-> "inf", s |-> s, m |-> 0, e |-> 0]
Zero == [k |-> "fin", s |-> 1, m |-> 0, e |-> ExpMin]

IsNaN(a) == a.k = "nan"
IsInf(a) == a.k = "inf"
IsFinite(a) == a.k = "fin"
IsZero(a) == a.k = "fin" /\ a.m = 0

\* A finite value of mantissa m and exponent e, or what it overflows to.
Finish[s \in {1, -1}, m \in Nat, e \in Int] ==
    IF m = 0 THEN Zero
    ELSE IF e > ExpMax THEN Inf(s)
    ELSE [k |-> "fin", s |-> s, m |-> m, e |-> e]

\* A mantissa that rounding carried to MantBits + 1 bits is renormalised.
Carry[s \in {1, -1}, q1 \in Nat, e \in Int] ==
    IF q1 = 2^MantBits THEN Finish[s, q1 \div 2, e + 1] ELSE Finish[s, q1, e]

\* Round to nearest, ties to even: q is the kept part, rem the dropped
\* part, half the weight of half a unit of q, st = 1 when more was dropped.
Round[s \in {1, -1}, q \in Nat, rem \in Nat, half \in Nat, st \in {0, 1}, e \in Int] ==
    IF rem > half \/ (rem = half /\ (st = 1 \/ q % 2 = 1))
    THEN Carry[s, q + 1, e]
    ELSE Carry[s, q, e]

\* sh > 0 low bits of M are dropped, sh <= 0 means M is widened.
PackShift[s \in {1, -1}, M \in Nat, e \in Int, st \in {0, 1}, L \in Nat, sh \in Int] ==
    IF sh <= 0 THEN Finish[s, M * 2^(-sh), e + sh]
    ELSE IF sh > L + 1 THEN Zero
    ELSE Round[s, M \div 2^sh, M % 2^sh, 2^(sh - 1), st, e + sh]

\* L is the number of bits of M; subnormals keep fewer than MantBits bits.
PackBits[s \in {1, -1}, M \in Nat, e \in Int, st \in {0, 1}, L \in Nat] ==
    PackShift[s, M, e, st, L,
              IF L - MantBits >= ExpMin - e THEN L - MantBits ELSE ExpMin - e]

\* The value s * (M + f) * 2^e, with 0 < f < 1 when st = 1 and f = 0 when
\* st = 0, rounded to the nearest value of the format, ties to even.
\* With st = 1, M has at least MantBits + 2 bits.
Pack[s \in {1, -1}, M \in Nat, e \in Int, st \in {0, 1}] ==
    IF M = 0 THEN Zero ELSE PackBits[s, M, e, st, BitLen(M)]

\* (num / den) * 2^e, num / den having MantBits + 2 bits or more.
DivScaled[s \in {1, -1}, num \in Nat, den \in Nat, e \in Int] ==
    Pack[s, num \div den, e, IF num % den = 0 THEN 0 ELSE 1]

\* n / d scaled by 2^t.
DivShift[s \in {1, -1}, n \in Nat, d \in Nat, e \in Int, t \in Int] ==
    IF t >= 0 THEN DivScaled[s, n * 2^t, d, e - t]
    ELSE DivScaled[s, n, d * 2^(-t), e - t]

\* (n / d) * 2^e for integers n >= 0, d > 0, rounded.
DivCore[s \in {1, -1}, n \in Nat, d \in Nat, e \in Int] ==
    IF n = 0 THEN Zero
    ELSE DivShift[s, n, d, e, BitLen(d) + MantBits + 2 - BitLen(n)]

FromInt(n) == IF n < 0 THEN Pack[-1, -n, 0, 0] ELSE Pack[1, n, 0, 0]
\* The decimal literal n / d.
FromRat(n, d) == DivCore[1, n, d, 0]

FNeg[a \in FloatT] == IF IsNaN(a) \/ IsZero(a) THEN a ELSE [a EXCEPT !.s = -a.s]
FAbs[a \in FloatT] == IF IsNaN(a) THEN a ELSE [a EXCEPT !.s = 1]

\* The integer S scaled by 2^e.
AddSigned[S \in Int, e \in Int] ==
    IF S < 0 THEN Pack[-1, -S, e, 0] ELSE Pack[1, S, e, 0]

\* hi + lo for finite nonzero values with hi.e >= lo.e.
AddOrdered[hi \in FloatT, lo \in FloatT] ==
    IF hi.e - lo.e > MantBits + 2
    THEN \* lo is below the rounding position of hi
         Pack[hi.s, hi.m * 4 - (IF lo.s = hi.s THEN 0 ELSE 1), hi.e - 2, 1]
    ELSE AddSigned[hi.s * hi.m * 2^(hi.e - lo.e) + lo.s * lo.m, lo.e]

FAdd[a \in FloatT, b \in FloatT] ==
    IF IsNaN(a) \/ IsNaN(b) THEN NaN
    ELSE IF IsInf(a) THEN (IF IsInf(b) /\ b.s # a.s THEN NaN ELSE a)
    ELSE IF IsInf(b) THEN b
    ELSE IF a.m = 0 THEN b
    ELSE IF b.m = 0 THEN a
    ELSE IF a.e >= b.e THEN AddOrdered[a, b]
    ELSE AddOrdered[b, a]

FSub[a \in FloatT, b \in FloatT] == FAdd[a, FNeg[b]]

FMul[a \in FloatT, b \in FloatT] ==
    IF IsNaN(a) \/ IsNaN(b) THEN NaN
    ELSE IF IsInf(a) \/ IsInf(b)
         THEN (IF IsZero(a) \/ IsZero(b) THEN NaN ELSE Inf(a.s * b.s))
    ELSE Pack[a.s * b.s, a.m * b.m, a.e + b.e, 0]

FDiv[a \in FloatT, b \in FloatT] ==
    IF IsNaN(a) \/ IsNaN(b) THEN NaN
    ELSE IF IsInf(a) THEN (IF IsInf(b) THEN NaN ELSE Inf(a.s * b.s))
    ELSE IF IsInf(b) THEN Zero
    ELSE IF b.m = 0 THEN (IF a.m = 0 THEN NaN ELSE Inf(a.s))
    ELSE DivCore[a.s * b.s, a.m, b.m, a.e - b.e]

\* The largest x in lo..hi with x * x <= M.
ISqrtIter[M \in Nat, lo \in Nat, hi \in Nat] ==
    IF lo = hi THEN lo
    ELSE IF ((lo + hi + 1) \div 2) * ((lo + hi + 1) \div 2) <= M
         THEN ISqrtIter[M, (lo + hi + 1) \div 2, hi]
         ELSE ISqrtIter[M, lo, (lo + hi + 1) \div 2 - 1]

\* root is the integer square root of M.
SqrtRoot[M \in Nat, root \in Nat, e \in Int] ==
    Pack[1, root, e, IF root * root = M THEN 0 ELSE 1]

\* sqrt(M * 2^(2 * e)), M having 2 * MantBits + 3 bits or more.
SqrtScaled[M \in Nat, e \in Int] ==
    SqrtRoot[M, ISqrtIter[M, 0, 2^(MantBits + 2)], e]

\* The mantissa is scaled by 2^t, t chosen to leave an even exponent.
SqrtShift[a \in FloatT, t0 \in Int] ==
    IF (a.e - t0) % 2 = 0
    THEN SqrtScaled[a.m * 2^t0, (a.e - t0) \div 2]
    ELSE SqrtScaled[a.m * 2^(t0 + 1), (a.e - t0 - 1) \div 2]

FSqrt[a \in FloatT] ==
    IF IsNaN(a) THEN NaN
    ELSE IF IsZero(a) THEN Zero
    ELSE IF a.s < 0 THEN NaN
    ELSE IF IsInf(a) THEN a
    ELSE SqrtShift[a, 2 * MantBits + 3 - BitLen(a.m)]

\* Fixed point with FixBits fractional bits, for exp.
FixBits == MantBits + 6
FixOne == 2^FixBits
\* ln 2 in fixed point
FixLn2 == (726817 + 2^(19 - FixBits)) \div 2^(20 - FixBits)

\* a * b / FixOne for fixed point a (any sign) and b >= 0, rounded down
\* in magnitude.
FixMul[a \in Int, b \in Int] ==
    IF a < 0 THEN -(((-a) * b) \div FixOne) ELSE (a * b) \div FixOne

\* exp(R / FixOne) * FixOne for |R| <= FixLn2: the Taylor polynomial of
\* degree 6 in Horner form.
FixExpPoly[R \in Int] ==
    FixOne + FixMul[R,
    FixOne + FixMul[R,
    FixOne + FixMul[R,
    FixOne + FixMul[R,
    FixOne + FixMul[R, FixOne + R \div 6] \div 5] \div 4] \div 3] \div 2]

\* exp(s * X / FixOne) with kk the multiple of ln 2 nearest to X / FixOne.
ExpReduced[s \in {1, -1}, X \in Nat, kk \in Nat] ==
    IF s > 0 THEN Pack[1, FixExpPoly[X - kk * FixLn2], kk - FixBits, 0]
    ELSE Pack[1, FixExpPoly[kk * FixLn2 - X], -kk - FixBits, 0]

ExpFixed[s \in {1, -1}, X \in Nat] ==
    ExpReduced[s, X, (2 * X + FixLn2) \div (2 * FixLn2)]

\* The magnitude of a in fixed point, sh = a.e + FixBits.
ExpShift[a \in FloatT, sh \in Int] ==
    IF sh >= 0 THEN ExpFixed[a.s, a.m * 2^sh]
    ELSE IF -sh > 30 THEN ExpFixed[a.s, 0]
    ELSE ExpFixed[a.s, (a.m + 2^(-sh - 1)) \div 2^(-sh)]

FExp[a \in FloatT] ==
    IF IsNaN(a) THEN NaN
    ELSE IF IsInf(a) THEN (IF a.s > 0 THEN a ELSE Zero)
    ELSE IF a.m = 0 THEN FromInt(1)
    ELSE IF BitLen(a.m) + a.e > 7 THEN (IF a.s > 0 THEN Inf(1) ELSE Zero)
    ELSE ExpShift[a, a.e + FixBits]

\* The order of a value: its sign, then its exponent.
Sign(a) == IF IsZero(a) THEN 0 ELSE a.s
Expo(a) == IF IsInf(a) THEN ExpMax + 1 ELSE a.e

\* IEEE comparisons: every comparison with NaN is false.
FLt[a \in FloatT, b \in FloatT] ==
    IF IsNaN(a) \/ IsNaN(b) THEN FALSE
    ELSE IF Sign(a) # Sign(b) THEN Sign(a) < Sign(b)
    ELSE IF Sign(a) = 0 THEN FALSE
    ELSE IF Expo(a) # Expo(b)
         THEN (IF Sign(a) > 0 THEN Expo(a) < Expo(b) ELSE Expo(b) < Expo(a))
    ELSE IF Sign(a) > 0 THEN a.m < b.m ELSE b.m < a.m
FEq[a \in FloatT, b \in FloatT] == ~IsNaN(a) /\ ~IsNaN(b) /\ a = b
FLe[a \in FloatT, b \in FloatT] == FLt[a, b] \/ FEq[a, b]

\* A finite value with a full mantissa (neither zero nor subnormal).
IsNormal(a) == IsFinite(a) /\ a.m >= 2^(MantBits - 1)

One == FromInt(1)
Two == FromInt(2)
\* jnp.pi
FPi == FromRat(102944, 32768)
\* The smallest positive value of the format.
Tiny == [k |-> "fin", s |-> 1, m |-> 1, e |-> ExpMin]

------------------------------------------------------------------------------
(* Outcomes of a call.                                                     *)

Value(v) == [kind |-> "value", val |-> v, exc |-> "none"]
Raise(x) == [kind |-> "raise", val |-> <<>>, exc |-> x]
NoCall == [kind |-> "none", val |-> <<>>, exc |-> "none"]

------------------------------------------------------------------------------
(* gaussian.py                                                             *)

\* fori_loop(0, 200, ...) and dx = r / 200.0
NumSteps == 200
DxDivisor == 200
\* self.ds as set by Gaussian.__init__
DsInit == FromRat(1, 100000)

\* _amp3d_to_2d without the factor 2 under the square root.
_amp3d_to_2d_without_two(amp, sigma_x, sigma_y) ==
    FMul[FMul[amp, FSqrt[FPi]], FSqrt[FMul[sigma_x, sigma_y]]]

_amp3d_to_2d(amp, sigma_x, sigma_y) ==
    FMul[FMul[amp, FSqrt[FPi]], FSqrt[FMul[FMul[sigma_x, sigma_y], Two]]]

\* jnp.sqrt(jnp.pi) * jnp.sqrt(sigma_x * sigma_y * 2)
AmpFactor[sigma_x \in FloatT, sigma_y \in FloatT] ==
    FMul[FSqrt[FPi], FSqrt[FMul[FMul[sigma_x, sigma_y], Two]]]

_amp2d_to_3d(amp, sigma_x, sigma_y) ==
    FDiv[amp, AmpFactor[sigma_x, sigma_y]]

\* c = 1.0 / (2 * sigma_x * sigma_y)
ScaleC[sigma_x \in FloatT, sigma_y \in FloatT] ==
    FDiv[One, FMul[FMul[Two, sigma_x], sigma_y]]

\* (1 - exp(-c * x**2)) / x
Integrand[x \in FloatT, c \in FloatT] ==
    FDiv[FSub[One, FExp[FMul[FNeg[c], FMul[x, x]]]], x]

Dx(r) == [j \in DOMAIN r |-> FDiv[r[j], FromInt(DxDivisor)]]
XLeft(r, i) == [j \in DOMAIN r |-> FMul[Dx(r)[j], FromInt(i)]]
XRight(r, i) == [j \in DOMAIN r |-> FMul[Dx(r)[j], FromInt(i + 1)]]
\* jnp.where(x_left == 0, 0, ...)
YLeft(r, c, i) ==
    [j \in DOMAIN r |->
        IF FEq[XLeft(r, i)[j], Zero] THEN Zero ELSE Integrand[XLeft(r, i)[j], c]]
YRight(r, c, i) == [j \in DOMAIN r |-> Integrand[XRight(r, i)[j], c]]

\* The loop body with the step width of the first element used for all.
trapezoidal_sum_coupled(i, val, r, c) ==
    [j \in DOMAIN r |->
        FAdd[val[j],
             FMul[FDiv[FAdd[YLeft(r, c, i)[j], YRight(r, c, i)[j]], Two],
                  Dx(r)[1]]]]

\* The loop body taking the subintervals from the last to the first.
trapezoidal_sum_reversed(i, val, r, c) ==
    [j \in DOMAIN r |->
        FAdd[val[j],
             FMul[FDiv[FAdd[YLeft(r, c, NumSteps - 1 - i)[j],
                            YRight(r, c, NumSteps - 1 - i)[j]], Two],
                  Dx(r)[j]]]]

\* One iteration of the loop body: the accumulator after subinterval i.
trapezoidal_sum(i, val, r, c) ==
    [j \in DOMAIN r |->
        FAdd[val[j],
             FMul[FDiv[FAdd[YLeft(r, c, i)[j], YRight(r, c, i)[j]], Two],
                  Dx(r)[j]]]]

\* jnp.zeros_like(r, dtype=float)
ZerosLike(r) == [j \in DOMAIN r |-> Zero]

mass_2d[R \in FloatT, amp \in FloatT, sigma \in FloatT] ==
    LET amp2d == FDiv[amp, AmpFactor[sigma, sigma]]
        c == ScaleC[sigma, sigma]
    IN  FMul[FDiv[FMul[FMul[FMul[amp2d, Two], FPi], One], FMul[Two, c]],
             FSub[One, FExp[FMul[FNeg[c], FMul[R, R]]]]]

mass_2d_lens[R \in FloatT, amp \in FloatT, sigma \in FloatT] ==
    mass_2d[R, _amp2d_to_3d(amp, sigma, sigma), sigma]

alpha_abs[R \in FloatT, amp \in FloatT, sigma \in FloatT] ==
    FDiv[FDiv[mass_2d[R, _amp2d_to_3d(amp, sigma, sigma), sigma], FPi], R]

d_alpha_dr[R \in FloatT, amp \in FloatT, sigma_x \in FloatT, sigma_y \in FloatT] ==
    LET c == ScaleC[sigma_x, sigma_y]
        A == FMul[_amp2d_to_3d(amp, sigma_x, sigma_y),
                  FSqrt[FMul[FMul[FDiv[Two, FPi], sigma_x], sigma_y]]]
        R2 == FMul[R, R]
    IN  FMul[FMul[FDiv[One, R2],
                  FAdd[FromInt(-1),
                       FMul[FAdd[One, FMul[FMul[Two, c], R2]],
                            FExp[FMul[FNeg[c], R2]]]]],
             A]

\* r = sqrt(x_**2 + y_**2)
Radius[x_ \in FloatT, y_ \in FloatT] == FSqrt[FAdd[FMul[x_, x_], FMul[y_, y_]]]

\* R = jnp.where(R <= self.ds, self.ds, R)
ClampDerivatives[R \in FloatT, floor \in FloatT] == IF FLe[R, floor] THEN floor ELSE R
\* r = jnp.where(r < self.ds, self.ds, r)
ClampHessian[rad \in FloatT, floor \in FloatT] ==
    IF FLt[rad, floor] THEN floor ELSE rad

\* f_x, f_y = alpha / R * x_, alpha / R * y_
DerivativesScaled[alpha \in FloatT, R \in FloatT, x_ \in FloatT, y_ \in FloatT] ==
    <<FMul[FDiv[alpha, R], x_], FMul[FDiv[alpha, R], y_]>>
\* alpha = self.alpha_abs(R, amp, sigma)
DerivativesClamped[R \in FloatT, x_ \in FloatT, y_ \in FloatT, amp \in FloatT, sigma \in FloatT] ==
    DerivativesScaled[alpha_abs[R, amp, sigma], R, x_, y_]
\* R = jnp.sqrt(x_**2 + y_**2), clamped
DerivativesShifted[x_ \in FloatT, y_ \in FloatT, amp \in FloatT, sigma \in FloatT, floor \in FloatT] ==
    DerivativesClamped[ClampDerivatives[Radius[x_, y_], floor], x_, y_, amp, sigma]

derivatives(x, y, amp, sigma, center_x, center_y, floor) ==
    DerivativesShifted[FSub[x, center_x], FSub[y, center_y], amp, sigma, floor]

\* f_xx, f_xy, f_xy, f_yy of the return statement
HessianSecond[g \in FloatT, alpha \in FloatT, rad \in FloatT, x_ \in FloatT, y_ \in FloatT] ==
    LET f_xx == FAdd[FDiv[FMul[g, FMul[x_, x_]], rad], FDiv[alpha, rad]]
        f_yy == FAdd[FDiv[FMul[g, FMul[y_, y_]], rad], FDiv[alpha, rad]]
        f_xy == FDiv[FMul[FMul[g, x_], y_], rad]
    IN  <<f_xx, f_xy, f_xy, f_yy>>
\* the common factor -(d_alpha_dr / r + alpha / r**2)
HessianTerms[alpha \in FloatT, d_alpha_dr_ \in FloatT, rad \in FloatT, x_ \in FloatT, y_ \in FloatT] ==
    HessianSecond[FNeg[FAdd[FDiv[d_alpha_dr_, rad], FDiv[alpha, FMul[rad, rad]]]],
                  alpha, rad, x_, y_]
\* d_alpha_dr = -self.d_alpha_dr(r, ...); alpha = self.alpha_abs(r, ...)
HessianClamped[rad \in FloatT, x_ \in FloatT, y_ \in FloatT, amp \in FloatT, sigma \in FloatT] ==
    HessianTerms[alpha_abs[rad, amp, sigma],
                 FNeg[d_alpha_dr[rad, amp, sigma, sigma]], rad, x_, y_]
\* r = jnp.sqrt(x_**2 + y_**2), clamped
HessianShifted[x_ \in FloatT, y_ \in FloatT, amp \in FloatT, sigma \in FloatT, floor \in FloatT] ==
    HessianClamped[ClampHessian[Radius[x_, y_], floor], x_, y_, amp, sigma]

hessian(x, y, amp, sigma, center_x, center_y, floor) ==
    HessianShifted[FSub[x, center_x], FSub[y, center_y], amp, sigma, floor]

\* The factor Gaussian.function multiplies the quadrature by.
FunctionAmp[amp \in FloatT, sigma \in FloatT] ==
    LET c == ScaleC[sigma, sigma]
        amp_density == _amp2d_to_3d(amp, sigma, sigma)
        amp2d == FDiv[amp_density, AmpFactor[sigma, sigma]]
    IN  FMul[amp2d, FDiv[FMul[Two, One], FMul[Two, c]]]

------------------------------------------------------------------------------
(* sis.py                                                                  *)

\* The names bound in the module's namespace when SIS is used.
SisGlobals == {"__author__", "grad", "np", "LensProfileBase", "__all__", "SIS"}
\* A global name that is not bound raises NameError when it is evaluated.
Unbound(names) == names \ SisGlobals

\* theta_E * sqrt(x_shift**2 + y_shift**2), its gradient and its Hessian
SisPotential[x_shift \in FloatT, y_shift \in FloatT, theta_E \in FloatT] ==
    FMul[theta_E, Radius[x_shift, y_shift]]
SisGradient[x_shift \in FloatT, y_shift \in FloatT, theta_E \in FloatT] ==
    <<FMul[theta_E, FDiv[x_shift, Radius[x_shift, y_shift]]],
      FMul[theta_E, FDiv[y_shift, Radius[x_shift, y_shift]]]>>
SisSecond[x_shift \in FloatT, y_shift \in FloatT, theta_E \in FloatT] ==
    LET r == Radius[x_shift, y_shift]
        r3 == FMul[FMul[r, r], r]
        f_xx == FDiv[FMul[theta_E, FMul[y_shift, y_shift]], r3]
        f_yy == FDiv[FMul[theta_E, FMul[x_shift, x_shift]], r3]
        f_xy == FNeg[FDiv[FMul[theta_E, FMul[x_shift, y_shift]], r3]]
    IN  <<f_xx, f_xy, f_xy, f_yy>>

SisFunction(x, y, theta_E, center_x, center_y) ==
    IF Unbound({"jnp"}) # {} THEN Raise("NameError")
    ELSE Value(<<SisPotential[FSub[x, center_x], FSub[y, center_y], theta_E]>>)

\* grad(self.function, argnums=(0, 1)) traces self.function.
SisDerivatives(x, y, theta_E, center_x, center_y) ==
    IF Unbound({"grad"}) # {} THEN Raise("NameError")
    ELSE IF Unbound({"jnp"}) # {} THEN Raise("NameError")
    ELSE Value(SisGradient[FSub[x, center_x], FSub[y, center_y], theta_E])

SisHessian(x, y, theta_E, center_x, center_y) ==
    IF Unbound({"jacfwd", "jacrev"}) # {} THEN Raise("NameError")
    ELSE IF Unbound({"jnp"}) # {} THEN Raise("NameError")
    ELSE Value(SisSecond[FSub[x, center_x], FSub[y, center_y], theta_E])

SisMass3d[rad \in FloatT, rho0 \in FloatT] ==
    FMul[FMul[FMul[FromInt(4), FPi], rho0], rad]

SisGravPot[rad \in FloatT, rho0 \in FloatT] == FDiv[SisMass3d[rad, rho0], rad]

SisDensity[rad \in FloatT, rho0 \in FloatT] == FDiv[rho0, FMul[rad, rad]]

SisDensity2d[rad \in FloatT, rho0 \in FloatT] == FDiv[FMul[FPi, rho0], rad]

------------------------------------------------------------------------------
(* The caller: inputs and state.                                           *)

BatchLen == 2
Radii == {Zero, Tiny, One, FromInt(7)}
Batches == [1..BatchLen -> Radii]
Scales == {FromRat(1, 2), Two}
\* Positions: at the centre, within ds of it, and away from it.
Pt(x, y, cx, cy) == [x |-> x, y |-> y, center_x |-> cx, center_y |-> cy]
Points == {Pt(Zero, Zero, Zero, Zero), Pt(One, One, One, One),
           Pt(FromRat(1, 1000000), Zero, Zero, Zero),
           Pt(One, FromInt(-2), Zero, Zero), Pt(FromInt(-2), One, One, Zero),
           Pt(Zero, One, Zero, Zero)}
Amps == {One, FromInt(3)}
Sigmas == {One, FromRat(3, 10), Zero}
RadiusArgs == {Zero, FromRat(1, 1000000), One, FromInt(-2)}
ConvAmps == {One, FromInt(3), FromRat(7, 10)}
ConvSigmas == {One, FromInt(3), FromRat(3, 10), Tiny, Zero}

VARIABLES
    ds,     \* Gaussian.ds, the radius floor of the instance
    pc,     \* "idle", "loop" (inside lax.fori_loop) or "done"
    op,     \* the operation called last
    args,   \* its arguments
    r, c,   \* _num_integral: the radii and the scale
    i, sum, \* fori_loop: the index of the next iteration, the accumulator
    scale,  \* Gaussian.function: the factor applied to the quadrature
    ret,    \* the outcome of the last call that ended
    rdiv,   \* the radii the last call divided by
    orig,   \* <<a>> when the amplitude passed is the conversion of a, else <<>>
    shadow, \* accumulators of each radius integrated as a batch of its own
    log     \* <<>> or <<an earlier call: its operation, arguments, outcome,
            \* and whether other calls have ended since>>

vars == <<ds, pc, op, args, r, c, i, sum, scale, ret, rdiv, orig, shadow, log>>
loopvars == <<r, c, i, sum, scale, shadow>>

Init ==
    /\ ds = DsInit
    /\ pc = "idle"
    /\ op = "none"
    /\ args = <<>>
    /\ r = <<>>
    /\ c = Zero
    /\ i = 0
    /\ sum = <<>>
    /\ scale = One
    /\ ret = NoCall
    /\ rdiv = {}
    /\ orig = <<>>
    /\ shadow = <<>>
    /\ log = <<>>

Ready == pc = "idle"

\* Gaussian._num_integral(r, c) is entered.
CallNumIntegral ==
    \E rb \in Batches, cc \in Scales :
        /\ Ready
        /\ pc' = "loop"
        /\ op' = "Gaussian._num_integral"
        /\ args' = <<rb, cc>>
        /\ r' = rb
        /\ c' = cc
        /\ i' = 0
        /\ sum' = ZerosLike(rb)
        /\ scale' = One
        /\ ret' = NoCall
        /\ rdiv' = {}
        /\ orig' = <<>>
        /\ UNCHANGED <<ds, log, shadow>>

\* Gaussian.function is entered and calls _num_integral.
CallFunction ==
    \E p \in Points, amp \in Amps, sigma \in Sigmas :
        /\ Ready
        /\ pc' = "loop"
        /\ op' = "Gaussian.function"
        /\ args' = <<p.x, p.y, amp, sigma, p.center_x, p.center_y>>
        /\ r' = <<Radius[FSub[p.x, p.center_x], FSub[p.y, p.center_y]]>>
        /\ c' = ScaleC[sigma, sigma]
        /\ i' = 0
        /\ sum' = ZerosLike(r')
        /\ scale' = FunctionAmp[amp, sigma]
        /\ ret' = NoCall
        /\ rdiv' = {}
        /\ orig' = <<>>
        /\ UNCHANGED <<ds, log, shadow>>

\* One iteration of lax.fori_loop(0, 200, trapezoidal_sum, sum).
LoopStep ==
    /\ pc = "loop"
    /\ i < NumSteps
    /\ sum' = trapezoidal_sum(i, sum, r, c)
    /\ i' = i + 1
    /\ UNCHANGED <<ds, log, pc, op, args, r, c, scale, ret, rdiv, orig, shadow>>

\* The loop ends and the call returns.
LoopExit ==
    /\ pc = "loop"
    /\ i >= NumSteps
    /\ pc' = "done"
    /\ ret' = IF op = "Gaussian.function"
              THEN Value([j \in DOMAIN sum |-> FMul[sum[j], scale]])
              ELSE Value(sum)
    /\ UNCHANGED <<ds, log, op, args, r, c, i, sum, scale, rdiv, orig, shadow>>

\* Gaussian.derivatives keeping the radius it clamped as the new floor.
CallDerivativesStoringFloor ==
    \E p \in Points, amp \in Amps, sigma \in Sigmas :
        /\ Ready
        /\ pc' = "done"
        /\ op' = "Gaussian.derivatives"
        /\ args' = <<p.x, p.y, amp, sigma, p.center_x, p.center_y>>
        /\ ret' = Value(derivatives(p.x, p.y, amp, sigma, p.center_x, p.center_y, ds))
        /\ rdiv' = {ClampDerivatives[Radius[FSub[p.x, p.center_x], FSub[p.y, p.center_y]], ds]}
        /\ ds' = ClampDerivatives[Radius[FSub[p.x, p.center_x], FSub[p.y, p.center_y]], ds]
        /\ orig' = <<>>
        /\ UNCHANGED <<log, loopvars>>

CallDerivatives ==
    \E p \in Points, amp \in Amps, sigma \in Sigmas :
        /\ Ready
        /\ pc' = "done"
        /\ op' = "Gaussian.derivatives"
        /\ args' = <<p.x, p.y, amp, sigma, p.center_x, p.center_y>>
        /\ ret' = Value(derivatives(p.x, p.y, amp, sigma, p.center_x, p.center_y, ds))
        /\ rdiv' = {ClampDerivatives[Radius[FSub[p.x, p.center_x], FSub[p.y, p.center_y]], ds]}
        /\ orig' = <<>>
        /\ UNCHANGED <<ds, log, loopvars>>

CallHessian ==
    \E p \in Points, amp \in Amps, sigma \in Sigmas :
        /\ Ready
        /\ pc' = "done"
        /\ op' = "Gaussian.hessian"
        /\ args' = <<p.x, p.y, amp, sigma, p.center_x, p.center_y>>
        /\ ret' = Value(hessian(p.x, p.y, amp, sigma, p.center_x, p.center_y, ds))
        /\ rdiv' = {ClampHessian[Radius[FSub[p.x, p.center_x], FSub[p.y, p.center_y]], ds]}
        /\ orig' = <<>>
        /\ UNCHANGED <<ds, log, loopvars>>

CallMass2d ==
    \E R \in RadiusArgs, amp \in Amps, sigma \in Sigmas :
        /\ Ready
        /\ pc' = "done"
        /\ op' = "Gaussian.mass_2d"
        /\ args' = <<R, amp, sigma>>
        /\ ret' = Value(<<mass_2d[R, amp, sigma]>>)
        /\ rdiv' = {}
        /\ orig' = <<>>
        /\ UNCHANGED <<ds, log, loopvars>>

CallMass2dLens ==
    \E R \in RadiusArgs, amp \in Amps, sigma \in Sigmas :
        /\ Ready
        /\ pc' = "done"
        /\ op' = "Gaussian.mass_2d_lens"
        /\ args' = <<R, amp, sigma>>
        /\ ret' = Value(<<mass_2d_lens[R, amp, sigma]>>)
        /\ rdiv' = {}
        /\ orig' = <<>>
        /\ UNCHANGED <<ds, log, loopvars>>

CallAlphaAbs ==
    \E R \in RadiusArgs, amp \in Amps, sigma \in Sigmas :
        /\ Ready
        /\ pc' = "done"
        /\ op' = "Gaussian.alpha_abs"
        /\ args' = <<R, amp, sigma>>
        /\ ret' = Value(<<alpha_abs[R, amp, sigma]>>)
        /\ rdiv' = {R}
        /\ orig' = <<>>
        /\ UNCHANGED <<ds, log, loopvars>>

CallDAlphaDr ==
    \E R \in RadiusArgs, amp \in Amps, sigma \in Sigmas :
        /\ Ready
        /\ pc' = "done"
        /\ op' = "Gaussian.d_alpha_dr"
        /\ args' = <<R, amp, sigma, sigma>>
        /\ ret' = Value(<<d_alpha_dr[R, amp, sigma, sigma]>>)
        /\ rdiv' = {R}
        /\ orig' = <<>>
        /\ UNCHANGED <<ds, log, loopvars>>

CallAmp2dTo3d ==
    \E amp \in ConvAmps, sx \in ConvSigmas, sy \in ConvSigmas :
        /\ Ready
        /\ pc' = "done"
        /\ op' = "Gaussian._amp2d_to_3d"
        /\ args' = <<amp, sx, sy>>
        /\ ret' = Value(<<_amp2d_to_3d(amp, sx, sy)>>)
        /\ rdiv' = {}
        /\ orig' = <<>>
        /\ UNCHANGED <<ds, log, loopvars>>

CallAmp3dTo2d ==
    \E amp \in ConvAmps, sx \in ConvSigmas, sy \in ConvSigmas :
        /\ Ready
        /\ pc' = "done"
        /\ op' = "Gaussian._amp3d_to_2d"
        /\ args' = <<amp, sx, sy>>
        /\ ret' = Value(<<_amp3d_to_2d(amp, sx, sy)>>)
        /\ rdiv' = {}
        /\ orig' = <<>>
        /\ UNCHANGED <<ds, log, loopvars>>

\* The caller converts the amplitude it was just given back, with the same
\* sigma_x and sigma_y.
BackTo2d ==
    /\ pc = "done"
    /\ op = "Gaussian._amp2d_to_3d"
    /\ orig = <<>>
    /\ pc' = "done"
    /\ op' = "Gaussian._amp3d_to_2d"
    /\ args' = <<ret.val[1], args[2], args[3]>>
    /\ ret' = Value(<<_amp3d_to_2d(ret.val[1], args[2], args[3])>>)
    /\ rdiv' = {}
    /\ orig' = <<args[1]>>
    /\ UNCHANGED <<ds, log, loopvars>>

BackTo3d ==
    /\ pc = "done"
    /\ op = "Gaussian._amp3d_to_2d"
    /\ orig = <<>>
    /\ pc' = "done"
    /\ op' = "Gaussian._amp2d_to_3d"
    /\ args' = <<ret.val[1], args[2], args[3]>>
    /\ ret' = Value(<<_amp2d_to_3d(ret.val[1], args[2], args[3])>>)
    /\ rdiv' = {}
    /\ orig' = <<args[1]>>
    /\ UNCHANGED <<ds, log, loopvars>>

CallSisFunction ==
    \E p \in Points, theta_E \in Amps :
        /\ Ready
        /\ pc' = "done"
        /\ op' = "SIS.function"
        /\ args' = <<p.x, p.y, theta_E, p.center_x, p.center_y>>
        /\ ret' = SisFunction(p.x, p.y, theta_E, p.center_x, p.center_y)
        /\ rdiv' = {}
        /\ orig' = <<>>
        /\ UNCHANGED <<ds, log, loopvars>>

CallSisDerivatives ==
    \E p \in Points, theta_E \in Amps :
        /\ Ready
        /\ pc' = "done"
        /\ op' = "SIS.derivatives"
        /\ args' = <<p.x, p.y, theta_E, p.center_x, p.center_y>>
        /\ ret' = SisDerivatives(p.x, p.y, theta_E, p.center_x, p.center_y)
        /\ rdiv' = {}
        /\ orig' = <<>>
        /\ UNCHANGED <<ds, log, loopvars>>

CallSisHessian ==
    \E p \in Points, theta_E \in Amps :
        /\ Ready
        /\ pc' = "done"
        /\ op' = "SIS.hessian"
        /\ args' = <<p.x, p.y, theta_E, p.center_x, p.center_y>>
        /\ ret' = SisHessian(p.x, p.y, theta_E, p.center_x, p.center_y)
        /\ rdiv' = {}
        /\ orig' = <<>>
        /\ UNCHANGED <<ds, log, loopvars>>

CallSisGravPot ==
    \E p \in Points, rho0 \in Amps :
        /\ Ready
        /\ pc' = "done"
        /\ op' = "SIS.grav_pot"
        /\ args' = <<p.x, p.y, rho0, p.center_x, p.center_y>>
        /\ ret' = Value(<<SisGravPot[Radius[FSub[p.x, p.center_x], FSub[p.y, p.center_y]], rho0]>>)
        /\ rdiv' = {Radius[FSub[p.x, p.center_x], FSub[p.y, p.center_y]]}
        /\ orig' = <<>>
        /\ UNCHANGED <<ds, log, loopvars>>

CallSisDensity ==
    \E R \in RadiusArgs, rho0 \in Amps :
        /\ Ready
        /\ pc' = "done"
        /\ op' = "SIS.density"
        /\ args' = <<R, rho0>>
        /\ ret' = Value(<<SisDensity[R, rho0]>>)
        /\ rdiv' = {R}
        /\ orig' = <<>>
        /\ UNCHANGED <<ds, log, loopvars>>

CallSisDensity2d ==
    \E p \in Points, rho0 \in Amps :
        /\ Ready
        /\ pc' = "done"
        /\ op' = "SIS.density_2d"
        /\ args' = <<p.x, p.y, rho0, p.center_x, p.center_y>>
        /\ ret' = Value(<<SisDensity2d[Radius[FSub[p.x, p.center_x], FSub[p.y, p.center_y]], rho0]>>)
        /\ rdiv' = {Radius[FSub[p.x, p.center_x], FSub[p.y, p.center_y]]}
        /\ orig' = <<>>
        /\ UNCHANGED <<ds, log, loopvars>>

CallSisMass3d ==
    \E R \in RadiusArgs, rho0 \in Amps :
        /\ Ready
        /\ pc' = "done"
        /\ op' = "SIS.mass_3d"
        /\ args' = <<R, rho0>>
        /\ ret' = Value(<<SisMass3d[R, rho0]>>)
        /\ rdiv' = {}
        /\ orig' = <<>>
        /\ UNCHANGED <<ds, log, loopvars>>

\* The caller drops the outcome; nothing of the call is kept.  A call kept
\* earlier has now been followed by another call.
Return ==
    /\ pc = "done"
    /\ pc' = "idle"
    /\ op' = "none"
    /\ args' = <<>>
    /\ r' = <<>>
    /\ c' = Zero
    /\ i' = 0
    /\ sum' = <<>>
    /\ scale' = One
    /\ ret' = NoCall
    /\ rdiv' = {}
    /\ orig' = <<>>
    /\ shadow' = <<>>
    /\ log' = IF log = <<>> THEN log ELSE <<[log[1] EXCEPT !.between = TRUE]>>
    /\ UNCHANGED ds

Next ==
    \/ CallNumIntegral
    \/ CallFunction
    \/ LoopStep
    \/ LoopExit
    \/ CallDerivatives
    \/ CallHessian
    \/ CallMass2d
    \/ CallMass2dLens
    \/ CallAlphaAbs
    \/ CallDAlphaDr
    \/ CallAmp2dTo3d
    \/ CallAmp3dTo2d
    \/ BackTo2d
    \/ BackTo3d
    \/ CallSisFunction
    \/ CallSisDerivatives
    \/ CallSisHessian
    \/ CallSisGravPot
    \/ CallSisDensity
    \/ CallSisDensity2d
    \/ CallSisMass3d
    \/ Return

Spec == Init /\ [][Next]_vars

------------------------------------------------------------------------------
(* The quadrature of a batch beside the quadrature of each of its radii     *)
(* taken as a batch of its own: shadow[j] is the accumulator of            *)
(* _num_integral(<<r[j]>>, c), advanced by the same loop body.             *)

IndepCall ==
    \E rb \in Batches, cc \in Scales :
        /\ Ready
        /\ pc' = "loop"
        /\ op' = "Gaussian._num_integral"
        /\ args' = <<rb, cc>>
        /\ r' = rb
        /\ c' = cc
        /\ i' = 0
        /\ sum' = ZerosLike(rb)
        /\ shadow' = [j \in DOMAIN rb |-> ZerosLike(<<rb[j]>>)]
        /\ scale' = One
        /\ ret' = NoCall
        /\ rdiv' = {}
        /\ orig' = <<>>
        /\ UNCHANGED <<ds, log>>

IndepStep ==
    /\ pc = "loop"
    /\ i < NumSteps
    /\ sum' = trapezoidal_sum(i, sum, r, c)
    /\ shadow' = [j \in DOMAIN r |-> trapezoidal_sum(i, shadow[j], <<r[j]>>, c)]
    /\ i' = i + 1
    /\ UNCHANGED <<ds, log, pc, op, args, r, c, scale, ret, rdiv, orig>>

NextIndep ==
    \/ IndepCall
    \/ IndepStep
    \/ LoopExit
    \/ Return

SpecIndep == Init /\ [][NextIndep]_vars

------------------------------------------------------------------------------
(* Calls on one Gaussian instance, one of which is kept in log to be set   *)
(* beside a later call of the same operation with the same arguments.      *)

\* The caller keeps the call that has just ended, the first it keeps.
Mark ==
    /\ pc = "done"
    /\ log = <<>>
    /\ log' = <<[op |-> op, args |-> args, ret |-> ret, between |-> FALSE]>>
    /\ pc' = "idle"
    /\ op' = "none"
    /\ args' = <<>>
    /\ r' = <<>>
    /\ c' = Zero
    /\ i' = 0
    /\ sum' = <<>>
    /\ scale' = One
    /\ ret' = NoCall
    /\ rdiv' = {}
    /\ orig' = <<>>
    /\ shadow' = <<>>
    /\ UNCHANGED ds

NextPure ==
    \/ CallDerivatives
    \/ CallHessian
    \/ CallMass2d
    \/ CallMass2dLens
    \/ CallAlphaAbs
    \/ CallDAlphaDr
    \/ Mark
    \/ Return

SpecPure == Init /\ [][NextPure]_vars

------------------------------------------------------------------------------
(* Properties.                                                             *)

Ended(name) == pc = "done" /\ op = name
Positive(a) == FLt[Zero, a]
\* A call of Gaussian._num_integral with a scale c > 0 has returned.
QuadratureDone ==
    Ended("Gaussian._num_integral") /\ ret.kind = "value" /\ Positive(c)

\* C1: for every scale c > 0 the quadrature of radius 0 is exactly 0: after
\* the 200 steps the accumulator entry of an element with r = 0 is 0, not
\* NaN or Inf.
C1_ZeroRadiusIntegratesToZero ==
    QuadratureDone =>
        \A j \in DOMAIN r : IsZero(r[j]) => i = NumSteps /\ ret.val[j] = Zero

\* The quadrature of radius 0 has returned NaN.
C1_ZeroRadiusGivesNaN ==
    QuadratureDone /\ \E j \in DOMAIN r : IsZero(r[j]) /\ IsNaN(ret.val[j])

\* The position of the call is the centre of the lens.
AtCentre ==
    IF op \in {"Gaussian.derivatives", "Gaussian.hessian"}
    THEN IsZero(FSub[args[1], args[5]]) /\ IsZero(FSub[args[2], args[6]])
    ELSE IsZero(FSub[args[1], args[4]]) /\ IsZero(FSub[args[2], args[5]])
\* amp and sigma (Gaussian) or theta_E (SIS) are positive.
ValidParams ==
    IF op \in {"Gaussian.derivatives", "Gaussian.hessian"}
    THEN Positive(args[3]) /\ Positive(args[4])
    ELSE Positive(args[3])
AllFinite(v) == \A k \in DOMAIN v : IsFinite(v[k])

\* C2: derivatives and hessian of both profiles, called exactly at the lens
\* centre with valid parameters, return finite values: no component is NaN
\* or Inf.
C2_FiniteAtCentre ==
    (/\ pc = "done"
     /\ op \in {"Gaussian.derivatives", "Gaussian.hessian",
                "SIS.derivatives", "SIS.hessian"}
     /\ AtCentre
     /\ ValidParams)
    => ret.kind = "value" /\ AllFinite(ret.val)

\* Gaussian.hessian was called at the centre and returned finite values.
C2_GaussianCentreFinite ==
    Ended("Gaussian.hessian") /\ AtCentre /\ ValidParams
    /\ ret.kind = "value" /\ AllFinite(ret.val)

\* SIS.derivatives was called at the centre and returned no value.
C2_SisCentreRaises ==
    Ended("SIS.derivatives") /\ AtCentre /\ ValidParams /\ ret.kind = "raise"

\* C3: the tuple (f_xx, f_xy, f_yx, f_yy) returned by hessian, of Gaussian
\* and of SIS, has its second and third components equal, the same computed
\* value being returned in both positions.
C3_HessianSymmetric ==
    (pc = "done" /\ op \in {"Gaussian.hessian", "SIS.hessian"})
    => ret.kind = "value" /\ Len(ret.val) = 4 /\ ret.val[2] = ret.val[3]

\* SIS.hessian has ended without returning a tuple.
C3_SisHessianNoTuple == Ended("SIS.hessian") /\ ret.kind # "value"

\* C4: no call of a profile operation raises, whatever the input (zero
\* radius, negative radius, non-positive scale): every call returns a value.
C4_NeverRaises == pc = "done" => ret.kind = "value"

\* SIS.function has raised NameError.
C4_SisFunctionRaises ==
    Ended("SIS.function") /\ ret.kind = "raise" /\ ret.exc = "NameError"

\* C5: every formula that divides by the radius first clamps it to the floor
\* 1e-5: for an input radius >= 0 the divisor used is never below the floor.
C5_DivisorClamped ==
    pc = "done" => \A d \in rdiv : FLe[Zero, d] => FLe[DsInit, d]

\* A call has divided by a radius of zero.
C5_DividedByZeroRadius == pc = "done" /\ \E d \in rdiv : IsZero(d)

\* An amplitude a > 0 was converted and the result converted back with the
\* same sigma_x > 0 and sigma_y > 0: args holds the second call.
RoundTripDone ==
    /\ pc = "done"
    /\ orig # <<>>
    /\ ret.kind = "value"
    /\ Positive(orig[1]) /\ Positive(args[2]) /\ Positive(args[3])

\* No product of the two conversions overflowed or lost bits to underflow.
RoundTripNormal ==
    /\ IsNormal(FMul[args[2], args[3]])
    /\ IsNormal(FMul[FMul[args[2], args[3]], Two])
    /\ IsNormal(AmpFactor[args[2], args[3]])
    /\ IsNormal(FMul[orig[1], FSqrt[FPi]])
    /\ IsNormal(args[1])
    /\ IsNormal(FMul[args[1], FSqrt[FPi]])
    /\ IsNormal(ret.val[1])

\* x differs from a by at most 8 units of roundoff of a.
WithinRounding(x, a) ==
    /\ IsFinite(x)
    /\ FLe[FAbs[FSub[x, a]], FMul[FAbs[a], FromRat(8, 2^MantBits)]]

\* C6 as stated: the conversions are mutual inverses, the round trip in
\* either order returns exactly a for all a > 0, sigma_x > 0, sigma_y > 0.
C6_RoundTripExact == RoundTripDone => ret.val[1] = orig[1]

\* C6: the round trip of the amplitude conversions, in either order, returns
\* a within 8 units of roundoff, for all a > 0, sigma_x > 0, sigma_y > 0 for
\* which no product of the conversions overflows or underflows.
C6_RoundTripWithinRounding ==
    (RoundTripDone /\ RoundTripNormal) => WithinRounding(ret.val[1], orig[1])

\* A round trip without overflow or underflow that did not return a exactly.
C6_RoundTripInexact ==
    RoundTripDone /\ RoundTripNormal /\ ret.val[1] # orig[1]

\* C7: the quadrature is an index-wise map over the batch: the accumulator
\* and the output have the index set of r, and at every one of the 200
\* steps entry j is what the quadrature of r[j] alone has at that step, so
\* it depends on r[j] and c only and on no other element of the batch.
C7_IndexWise ==
    /\ pc \in {"loop", "done"} =>
        /\ DOMAIN sum = DOMAIN r
        /\ DOMAIN shadow = DOMAIN r
        /\ \A j \in DOMAIN r : sum[j] = shadow[j][1]
    /\ pc = "done" =>
        /\ ret.kind = "value"
        /\ DOMAIN ret.val = DOMAIN r
        /\ \A j \in DOMAIN r : ret.val[j] = shadow[j][1]

\* A batch of two different positive radii has been integrated to two
\* different finite values.
C7_BatchOfDifferentRadii ==
    /\ pc = "done"
    /\ i = NumSteps
    /\ \E j \in DOMAIN r, k \in DOMAIN r :
        /\ r[j] # r[k]
        /\ IsFinite(ret.val[j]) /\ IsFinite(ret.val[k])
        /\ ret.val[j] # ret.val[k]

\* C8: for a fixed c > 0 the quadrature is non-decreasing in r over all
\* r >= 0, r = 0 included: 0 <= r1 <= r2 gives
\* _num_integral(r1, c) <= _num_integral(r2, c).
C8_Monotone ==
    QuadratureDone =>
        \A j \in DOMAIN r, k \in DOMAIN r :
            (FLe[Zero, r[j]] /\ FLe[r[j], r[k]]) => FLe[ret.val[j], ret.val[k]]

\* Radii 0 <= r1 <= r2 whose quadratures are not in order.
C8_OutOfOrder ==
    QuadratureDone /\ \E j \in DOMAIN r, k \in DOMAIN r :
        FLe[Zero, r[j]] /\ FLe[r[j], r[k]] /\ ~FLe[ret.val[j], ret.val[k]]

\* The contribution of subinterval k of width dx:
\* (f(k * dx) + f((k + 1) * dx)) / 2 * dx, f being 0 at a left edge of 0.
TrapezoidAt[dx \in FloatT, cc \in FloatT, k \in Nat] ==
    FMul[FDiv[FAdd[IF FEq[FMul[dx, FromInt(k)], Zero] THEN Zero
                   ELSE Integrand[FMul[dx, FromInt(k)], cc],
                   Integrand[FMul[dx, FromInt(k + 1)], cc]],
              Two],
         dx]
Trapezoid(rj, cc, k) == TrapezoidAt[FDiv[rj, FromInt(200)], cc, k]

RECURSIVE FoldLeft(_, _, _)
\* The left-to-right sum of the first n contributions, from 0.
FoldLeft(n, rj, cc) ==
    IF n = 0 THEN Zero
    ELSE FAdd[FoldLeft(n - 1, rj, cc), Trapezoid(rj, cc, n - 1)]

\* The loop runs i = 0, 1, ..., and returns after 200 steps the fold of the
\* 200 contributions (times the amplitude factor in Gaussian.function).
C9_FoldOf200 ==
    /\ pc = "loop" => i \in 0..200 /\ DOMAIN sum = DOMAIN r
    /\ (pc = "done" /\ op \in {"Gaussian._num_integral", "Gaussian.function"}) =>
        /\ i = 200
        /\ ret.kind = "value"
        /\ \A j \in DOMAIN r :
            ret.val[j] = IF op = "Gaussian.function"
                         THEN FMul[FoldLeft(200, r[j], c), scale]
                         ELSE FoldLeft(200, r[j], c)

\* Consecutive subintervals share their edge.
C9_SharedEdges ==
    (pc = "loop" /\ i < 199) => XRight(r, i) = XLeft(r, i + 1)

\* A step: the loop is entered with i = 0 and a zero accumulator, each
\* iteration adds the contribution of subinterval i and moves to i + 1, and
\* the loop is left only with i = 200.
C9_Step ==
    /\ (pc = "idle" /\ pc' = "loop") => i' = 0 /\ sum' = [j \in DOMAIN r' |-> Zero]
    /\ (pc = "loop" /\ pc' = "loop") =>
        /\ i' = i + 1
        /\ r' = r /\ c' = c
        /\ sum' = [j \in DOMAIN r |-> FAdd[sum[j], Trapezoid(r[j], c, i)]]
    /\ (pc = "loop" /\ pc' # "loop") => i = 200 /\ pc' = "done"

\* C9 as stated: 200 steps in the order i = 0..199 from an accumulator of
\* 0, the result the left-to-right fold of the 200 contributions,
\* consecutive subintervals sharing edges, and the last right edge equal
\* to r.
C9_LastEdgeIsR ==
    /\ C9_FoldOf200
    /\ C9_SharedEdges
    /\ pc = "loop" => \A j \in DOMAIN r : IsFinite(r[j]) => XRight(r, 199)[j] = r[j]

\* C9: the loop ends after exactly 200 steps taken in the order i = 0..199
\* from an accumulator of 0; step i adds (f(i * dx) + f((i + 1) * dx)) / 2 * dx
\* with dx = r / 200 rounded, so the result is the left-to-right fold of the
\* 200 contributions; consecutive subintervals share edges; the last right
\* edge is dx * 200, which is r within 8 units of roundoff when r / 200 does
\* not underflow.
C9_FoldInOrder ==
    /\ [](/\ C9_FoldOf200
          /\ C9_SharedEdges
          /\ pc = "loop" =>
                \A j \in DOMAIN r :
                    /\ XRight(r, 199)[j] = FMul[FDiv[r[j], FromInt(200)], FromInt(200)]
                    /\ IsNormal(Dx(r)[j]) => WithinRounding(XRight(r, 199)[j], r[j]))
    /\ [][C9_Step]_vars

\* A quadrature has returned whose last right edge was not r although
\* r / 200 did not underflow.
C9_LastEdgeRounded ==
    /\ QuadratureDone
    /\ \E j \in DOMAIN r : IsNormal(Dx(r)[j]) /\ XRight(r, 199)[j] # r[j]

\* C10: no integrand value entering the accumulator comes from a division
\* by zero: a left edge of 0 contributes the value 0, for r > 0 the right
\* edge of every step is non-zero, and for r > 0 the accumulator is finite
\* after every step.
C10_NoZeroDivision ==
    (pc = "loop" /\ Positive(c) /\ IsFinite(c)) =>
        \A j \in DOMAIN r :
            /\ (i < 200 /\ FEq[XLeft(r, i)[j], Zero]) => YLeft(r, c, i)[j] = Zero
            /\ (i < 200 /\ Positive(r[j])) => ~IsZero(XRight(r, i)[j])
            /\ Positive(r[j]) => IsFinite(sum[j])

\* A radius r > 0 whose right edge is 0 and whose accumulator is NaN.
C10_PositiveRadiusGivesNaN ==
    /\ pc = "loop" /\ Positive(c) /\ IsFinite(c)
    /\ \E j \in DOMAIN r :
        Positive(r[j]) /\ IsZero(XRight(r, 0)[j]) /\ IsNaN(sum[j])

\* A call has ended whose operation and arguments are those of the call kept.
SameCallAgain ==
    pc = "done" /\ log # <<>> /\ log[1].op = op /\ log[1].args = args

====
